---- MODULE Spec2Model ----
(***************************************************************************)
(* Model of the lecture voice-to-notes script (src/app.py): the gate on    *)
(* the API key and uploaded file, client construction, MIME resolution,    *)
(* the transcription request, the study-material request and the marker    *)
(* based parsing of the generated text into summary, key points and quiz.  *)
(*                                                                         *)
(* Python str values that the script inspects character by character       *)
(* (file names, transcripts, generated text) are sequences of one          *)
(* character strings.  Values it only passes on (MIME types, exception     *)
(* messages, user-facing messages) are TLA+ strings.  The leading emoji of *)
(* the user-facing messages is left out: it is not a legal character of a  *)
(* TLA+ string.                                                            *)
(***************************************************************************)
EXTENDS Integers, Sequences, FiniteSets, TLC

(***************************************************************************)
(* Bounds of the model.                                                    *)
(***************************************************************************)
\* file names are concatenations of at most this many NameTokens
MaxNameTokens == 3
\* generated texts are concatenations of at most this many TextTokens
MaxTextTokens == 3

(***************************************************************************)
(* Python str operations used by the script.                               *)
(***************************************************************************)
\* None where a client or a MIME type is expected
None == "None"

\* None where a str is expected: not a sequence of characters
NoneStr == << "None" >>

\* None where an uploaded file is expected
NoFile == [name |-> NoneStr, size |-> 0]

UpperLetters == <<"A", "B", "C", "D", "E", "F", "G", "H", "I", "J", "K", "L", "M", "N", "O", "P", "Q", "R", "S", "T", "U", "V", "W", "X", "Y", "Z">>

LowerLetters == <<"a", "b", "c", "d", "e", "f", "g", "h", "i", "j", "k", "l", "m", "n", "o", "p", "q", "r", "s", "t", "u", "v", "w", "x", "y", "z">>

\* str.lower() on one character (the ASCII letters)
LowerChar(c) ==
    IF \E i \in 1..Len(UpperLetters) : UpperLetters[i] = c
    THEN LowerLetters[CHOOSE i \in 1..Len(UpperLetters) : UpperLetters[i] = c]
    ELSE c

\* str.upper() on one character (the ASCII letters)
UpperChar(c) ==
    IF \E i \in 1..Len(LowerLetters) : LowerLetters[i] = c
    THEN UpperLetters[CHOOSE i \in 1..Len(LowerLetters) : LowerLetters[i] = c]
    ELSE c

Lower(s) == [i \in 1..Len(s) |-> LowerChar(s[i])]

Upper(s) == [i \in 1..Len(s) |-> UpperChar(s[i])]

\* positions at which sub occurs in s
Occurrences(s, sub) ==
    {i \in 1..(Len(s) - Len(sub) + 1) : SubSeq(s, i, i + Len(sub) - 1) = sub}

\* Python's  sub in s
Contains(s, sub) == Occurrences(s, sub) # {}

SetMin(S) == CHOOSE i \in S : \A j \in S : i <= j

SetMax(S) == CHOOSE i \in S : \A j \in S : j <= i

\* occurrences of sep in s at or after position start
HitsFrom(s, sep, start) == {i \in Occurrences(s, sep) : i >= start}

\* str.split(sep): cut at the leftmost, non-overlapping occurrences of sep
RECURSIVE SplitFrom(_, _, _)
SplitFrom(s, sep, start) ==
    IF HitsFrom(s, sep, start) = {}
    THEN << SubSeq(s, start, Len(s)) >>
    ELSE << SubSeq(s, start, SetMin(HitsFrom(s, sep, start)) - 1) >>
         \o SplitFrom(s, sep, SetMin(HitsFrom(s, sep, start)) + Len(sep))

Split(s, sep) == SplitFrom(s, sep, 1)

Whitespace == {" ", "\n", "\t", "\r"}

\* str.strip()
Strip(s) ==
    LET keep == {i \in 1..Len(s) : s[i] \notin Whitespace}
    IN  IF keep = {} THEN << >> ELSE SubSeq(s, SetMin(keep), SetMax(keep))

\* s[:n]
Prefix(s, n) == IF Len(s) <= n THEN s ELSE SubSeq(s, 1, n)

\* dict.get(k, default)
DictGet(d, k, default) == IF k \in DOMAIN d THEN d[k] ELSE default

RECURSIVE Flatten(_)
Flatten(ts) == IF ts = << >> THEN << >> ELSE Head(ts) \o Flatten(Tail(ts))

Repeat(c, n) == [i \in 1..n |-> c]

(***************************************************************************)
(* MIME resolution (app.py 99-111).                                        *)
(***************************************************************************)
mime_type_map ==
    (<<"m", "p", "3">> :> "audio/mp3") @@ (<<"m", "p", "e", "g">> :> "audio/mpeg") @@
    (<<"m", "p", "g", "a">> :> "audio/mpeg") @@ (<<"m", "p", "4">> :> "audio/mp4") @@
    (<<"m", "4", "a">> :> "audio/mp4") @@ (<<"w", "a", "v">> :> "audio/wav") @@
    (<<"w", "e", "b", "m">> :> "audio/webm") @@ (<<"a", "a", "c">> :> "audio/aac")

\* uploaded_file.name.split('.')[-1].lower()
file_extension(name) ==
    LET parts == Split(name, << "." >>) IN Lower(parts[Len(parts)])

ResolveMime(name) == DictGet(mime_type_map, file_extension(name), "audio/mpeg")

(***************************************************************************)
(* Section parsing of the generated text (app.py 190-227).                 *)
(***************************************************************************)
\* app.py:203, generated_content[:500] and len(generated_content) > 500
FallbackLen == 500

SUMMARY == <<"S", "U", "M", "M", "A", "R", "Y">>

KEY_POINTS == <<"K", "E", "Y", " ", "P", "O", "I", "N", "T", "S">>

QUIZ == <<"Q", "U", "I", "Z">>

Marker == <<"*", "*">>

\* faulty variant: truncates at len >= 500
SummaryFallbackOffByOne(text) ==
    IF Len(text) >= FallbackLen THEN Prefix(text, FallbackLen) \o <<".", ".", ".">> ELSE text

\* generated_content[:500] + "..." if len(generated_content) > 500 else generated_content
SummaryFallback(text) ==
    IF Len(text) > FallbackLen THEN Prefix(text, FallbackLen) \o <<".", ".", ".">> ELSE text

KeyPointsFallback == <<"K", "e", "y", " ", "p", "o", "i", "n", "t", "s", " ", "e", "x", "t", "r", "a", "c", "t", "e", "d", " ", "f", "r", "o", "m", " ", "t", "h", "e", " ", "l", "e", "c", "t", "u", "r", "e", " ", "c", "o", "n", "t", "e", "n", "t", ".">>

QuizFallback == <<"Q", "u", "i", "z", " ", "q", "u", "e", "s", "t", "i", "o", "n", "s", " ", "b", "a", "s", "e", "d", " ", "o", "n", " ", "t", "h", "e", " ", "l", "e", "c", "t", "u", "r", "e", " ", "c", "o", "n", "t", "e", "n", "t", ".">>

\* faulty variant: the content is written unstripped
RECURSIVE ForElseNoStrip(_, _, _, _)
ForElseNoStrip(secs, label, i, fallback) ==
    IF i >= Len(secs)
    THEN << [at |-> "else", value |-> fallback] >>
    ELSE IF Contains(Upper(secs[i + 1]), label)
         THEN IF i + 1 < Len(secs)
              THEN << [at |-> "for", value |-> secs[i + 2]] >>
              ELSE ForElseNoStrip(secs, label, i + 1, fallback)
         ELSE ForElseNoStrip(secs, label, i + 1, fallback)

\* faulty variant: no break after the write
RECURSIVE ForElseNoBreak(_, _, _, _)
ForElseNoBreak(secs, label, i, fallback) ==
    IF i >= Len(secs)
    THEN << [at |-> "else", value |-> fallback] >>
    ELSE IF Contains(Upper(secs[i + 1]), label)
         THEN IF i + 1 < Len(secs)
              THEN << [at |-> "for", value |-> Strip(secs[i + 2])] >>
                   \o ForElseNoBreak(secs, label, i + 1, fallback)
              ELSE ForElseNoBreak(secs, label, i + 1, fallback)
         ELSE ForElseNoBreak(secs, label, i + 1, fallback)

\* faulty variant: only a fragment that is exactly the label is a header
RECURSIVE ForElseExactHeader(_, _, _, _)
ForElseExactHeader(secs, label, i, fallback) ==
    IF i >= Len(secs)
    THEN << [at |-> "else", value |-> fallback] >>
    ELSE IF Upper(Strip(secs[i + 1])) = label
         THEN IF i + 1 < Len(secs)
              THEN << [at |-> "for", value |-> Strip(secs[i + 2])] >>
              ELSE ForElseExactHeader(secs, label, i + 1, fallback)
         ELSE ForElseExactHeader(secs, label, i + 1, fallback)

\* for i, section in enumerate(sections): ... break / else: ...
\* i is the Python (0-based) index; the result is the st.write calls made,
\* each tagged with the branch that made it.
RECURSIVE ForElse(_, _, _, _)
ForElse(secs, label, i, fallback) ==
    IF i >= Len(secs)
    THEN << [at |-> "else", value |-> fallback] >>
    ELSE IF Contains(Upper(secs[i + 1]), label)
         THEN IF i + 1 < Len(secs)
              THEN << [at |-> "for", value |-> Strip(secs[i + 2])] >>
              ELSE ForElse(secs, label, i + 1, fallback)
         ELSE ForElse(secs, label, i + 1, fallback)

(***************************************************************************)
(* Inputs of the model.                                                    *)
(***************************************************************************)
NameTokens ==
    { <<"a">>, <<".">>, <<"m", "p", "3">>, <<"M", "P", "3">>, <<"W", "a", "v">>, <<"m", "p", "e", "g">>, <<"m", "p", "g", "a">>, <<"m", "p", "4">>,
      <<"m", "4", "a">>, <<"w", "e", "b", "m">>, <<"a", "a", "c">>, <<"t", "x", "t">> }

TokenLists(tokens, n) == UNION { [1..k -> tokens] : k \in 1..n }

Names == { Flatten(ts) : ts \in TokenLists(NameTokens, MaxNameTokens) }

PipelineNames == { <<"l", "e", "c", "t", "u", "r", "e", ".", "w", "a", "v">>, <<"t", "a", "l", "k", ".", "M", "P", "3">>, <<"w", "e", "e", "k", ".", "1", ".", "m", "4", "a">> }

ApiKeys == { "", "AIza" }

\* str(e) of the exceptions the backend client raises
Causes == { "401 API key not valid", "503 unavailable" }

StripOnNone == "'NoneType' object has no attribute 'strip'"

SplitOnNone == "'NoneType' object has no attribute 'split'"

\* what the transcription response's .text can be
TranscriptionTexts == { NoneStr, <<>>, <<" ", "\n">>, <<" ", "H", "e", "l", "l", "o", " ", "w", "o", "r", "l", "d", ".", "\n">>, <<"H", "i">> }

TextTokens ==
    { Marker, <<"*">>, <<" ">>, <<"f", "o", "o">>, SUMMARY, <<"S", "u", "m", "m", "a", "r", "y">>, KEY_POINTS, QUIZ,
      <<"q", "u", "i", "z">> }

FreeTexts ==
    { <<>> } \cup { Flatten(ts) : ts \in TokenLists(TextTokens, MaxTextTokens) }

\* texts of the shape the study prompt asks for
WellFormed(P, S, K, Q) ==
    P \o Marker \o SUMMARY \o Marker \o S \o Marker \o KEY_POINTS \o Marker
      \o K \o Marker \o QUIZ \o Marker \o Q

Preambles == { <<>>, <<"H", "e", "r", "e", " ", "y", "o", "u", " ", "g", "o", ":", "\n">>, <<"*">>, <<"S", "u", "m", "m", "a", "r", "y", " ", "a", "n", "d", " ", "q", "u", "i", "z", " ", "b", "e", "l", "o", "w", "\n">> }

Summaries == { <<"\n", "f", "o", "o", "\n">>, <<"A", " ", "s", "h", "o", "r", "t", " ", "t", "a", "l", "k", ".">>, <<>>, <<"*">>, <<"f", "o", "o", "*">>, <<"*", "f", "o", "o">>, <<"a", "*", "b", " ">> }

KeyPointLists == { <<"\n", "b", "a", "r", "\n">>, <<"\n", "-", " ", "p", "o", "i", "n", "t", " ", "o", "n", "e", "\n">>, <<"*", " ", "o", "n", "e", "\n", "*", " ", "t", "w", "o", "*">>, <<>> }

Quizzes == { <<"\n", "b", "a", "z">>, <<"Q", "1", ".", ".", ".">>, <<" ", "t", "h", "e", " ", "Q", "u", "i", "z", ":", " ", "S", "u", "m", "m", "a", "r", "y", "?", "*">>, <<>> }

WellFormedTexts ==
    { WellFormed(P, S, K, Q) :
        P \in Preambles, S \in Summaries, K \in KeyPointLists, Q \in Quizzes }

Filler(n) == Repeat("x", n)

LongTexts ==
    { Filler(FallbackLen - 1), Filler(FallbackLen), Filler(FallbackLen + 1),
      Filler(FallbackLen) \o Marker \o QUIZ,
      Filler(FallbackLen) \o Marker \o QUIZ \o Marker \o <<" ", "q", " ">>,
      Marker \o KEY_POINTS \o Marker \o Filler(FallbackLen + 1) }

Texts == FreeTexts \cup WellFormedTexts \cup LongTexts

\* what the study-material response's .text can be in a pipeline run
PipelineTexts ==
    { NoneStr, <<>>, <<"n", "o", " ", "m", "a", "r", "k", "e", "r", "s">>,
      <<"*", "*", "S", "U", "M", "M", "A", "R", "Y", "*", "*", "\n", "A", " ", "s", "h", "o", "r", "t", " ", "t", "a", "l", "k", ".", "\n", "*", "*", "K", "E", "Y", " ", "P", "O", "I", "N", "T", "S", "*", "*", "\n", "-", " ", "p", "o", "i", "n", "t", " ", "o", "n", "e", "\n", "*", "*", "Q", "U", "I", "Z", "*", "*", "\n", "Q", "1", ".", ".", ".">>,
      <<"A", " ", "q", "u", "i", "z", ".", "*", "*", "S", "u", "m", "m", "a", "r", "y", "*", "*", "s", "*", "*", "Q", "U", "I", "Z", "*", "*", "q">>, <<"*", "*", "S", "U", "M", "M", "A", "R", "Y", "*", "*", "s", "*", "*", "Q", "U", "I", "Z">> }

(***************************************************************************)
(* State.                                                                  *)
(***************************************************************************)
VARIABLES
    pc,                 \* position of the script
    gemini_api_key,     \* sidebar text input
    uploaded_file,      \* NoFile or [name, size]
    gemini_client,      \* None or the constructed client
    mime_type,
    transcript_text,
    generated_content,
    sections,
    tab1, tab2, tab3, tab4,  \* what each tab shows, in order
    errors,             \* st.error calls, in order
    notices,            \* st.warning and st.info calls, in order
    downloads,          \* study-material download buttons
    requests,           \* generate_content calls issued to the backend
    responses           \* how each issued call ended

vars ==
    << pc, gemini_api_key, uploaded_file, gemini_client, mime_type,
       transcript_text, generated_content, sections, tab1, tab2, tab3, tab4,
       errors, notices, downloads, requests, responses >>

\* app.py 138-147: the transcript text area and its download button
TranscriptDisplay(text, name) ==
    << [widget |-> "text_area", value |-> text],
       [widget |-> "download_button", data |-> text, file_name |-> name] >>

TranscriptionRequest(mime, file) ==
    [kind |-> "transcription", mime_type |-> mime, size |-> file.size]

StudyRequest(transcript) == [kind |-> "study", transcript |-> transcript]

Raised(e) == [outcome |-> "raised", cause |-> e]

Returned(text) == [outcome |-> "returned", text |-> text]

ClientErrorMsg(e) == "Error initializing Gemini client: " \o e

TranscriptionErrorMsg(e) == "Error during transcription: " \o e

NoTranscriptMsg == "No transcript generated. Please try again."

GenerationErrorMsg(e) == "Error during note generation: " \o e

Init ==
    /\ pc = "gate"
    /\ gemini_api_key \in ApiKeys
    /\ uploaded_file \in {NoFile} \cup [name : PipelineNames, size : {0, 1024}]
    /\ gemini_client = None
    /\ mime_type = None
    /\ transcript_text = NoneStr
    /\ generated_content = NoneStr
    /\ sections = << >>
    /\ tab1 = << >> /\ tab2 = << >> /\ tab3 = << >> /\ tab4 = << >>
    /\ errors = << >> /\ notices = << >> /\ downloads = << >>
    /\ requests = << >> /\ responses = << >>

(***************************************************************************)
(* The script, one action per step.                                        *)
(***************************************************************************)
\* faulty variant: the gate passes with either input
GateEitherInput ==
    /\ pc = "gate"
    /\ IF gemini_api_key # "" \/ uploaded_file # NoFile
       THEN /\ pc' = "client"
            /\ UNCHANGED notices
       ELSE /\ pc' = "idle"
            /\ notices' = notices \o << "Get Started" >>
    /\ UNCHANGED << gemini_api_key, uploaded_file, gemini_client, mime_type,
                    transcript_text, generated_content, sections, tab1, tab2,
                    tab3, tab4, errors, downloads, requests, responses >>

\* app.py 84 and 269-290
Gate ==
    /\ pc = "gate"
    /\ IF gemini_api_key # "" /\ uploaded_file # NoFile
       THEN /\ pc' = "client"
            /\ UNCHANGED notices
       ELSE /\ pc' = "idle"
            /\ notices' =
                 notices
                 \o (IF gemini_api_key = ""
                     THEN << "Please enter your Gemini API key in the sidebar to get started." >>
                     ELSE << >>)
                 \o (IF uploaded_file = NoFile
                     THEN << "Please upload an audio file to begin processing." >>
                     ELSE << >>)
                 \o << "Get Started" >>
    /\ UNCHANGED << gemini_api_key, uploaded_file, gemini_client, mime_type,
                    transcript_text, generated_content, sections, tab1, tab2,
                    tab3, tab4, errors, downloads, requests, responses >>

\* app.py 87-93: genai.Client(...) returns
CreateClient ==
    /\ pc = "client"
    /\ gemini_client' = "client"
    /\ pc' = "mime"
    /\ UNCHANGED << gemini_api_key, uploaded_file, mime_type, transcript_text,
                    generated_content, sections, tab1, tab2, tab3, tab4,
                    errors, notices, downloads, requests, responses >>

\* app.py 87 and 265-267: genai.Client(...) raises
CreateClientRaise ==
    /\ pc = "client"
    /\ \E e \in Causes :
          /\ errors' = Append(errors, ClientErrorMsg(e))
          /\ notices' = Append(notices, "Please check your API key and try again.")
    /\ pc' = "client_failed"
    /\ UNCHANGED << gemini_api_key, uploaded_file, gemini_client, mime_type,
                    transcript_text, generated_content, sections, tab1, tab2,
                    tab3, tab4, downloads, requests, responses >>

\* app.py 96-111
ResolveMimeType ==
    /\ pc = "mime"
    /\ mime_type' = ResolveMime(uploaded_file.name)
    /\ pc' = "transcribe"
    /\ UNCHANGED << gemini_api_key, uploaded_file, gemini_client,
                    transcript_text, generated_content, sections, tab1, tab2,
                    tab3, tab4, errors, notices, downloads, requests, responses >>

\* app.py 122-131: the transcription request is issued
TranscribeCall ==
    /\ pc = "transcribe"
    /\ requests' = Append(requests, TranscriptionRequest(mime_type, uploaded_file))
    /\ pc' = "transcribing"
    /\ UNCHANGED << gemini_api_key, uploaded_file, gemini_client, mime_type,
                    transcript_text, generated_content, sections, tab1, tab2,
                    tab3, tab4, errors, notices, downloads, responses >>

\* faulty variant: an empty transcript is not reported
TranscribeReturnSilentOnEmpty ==
    /\ pc = "transcribing"
    /\ \E text \in TranscriptionTexts :
          /\ responses' = Append(responses, Returned(text))
          /\ IF text = NoneStr
             THEN /\ errors' = Append(errors, TranscriptionErrorMsg(StripOnNone))
                  /\ transcript_text' = << >>
                  /\ UNCHANGED tab1
             ELSE /\ transcript_text' = Strip(text)
                  /\ UNCHANGED errors
                  /\ tab1' = IF Strip(text) # << >>
                             THEN tab1 \o TranscriptDisplay(Strip(text), uploaded_file.name)
                             ELSE tab1
    /\ pc' = "guard"
    /\ UNCHANGED << gemini_api_key, uploaded_file, gemini_client, mime_type,
                    generated_content, sections, tab2, tab3, tab4, notices,
                    downloads, requests >>

\* app.py 133-149 (and 151-153 when .text is None): the request returns
TranscribeReturn ==
    /\ pc = "transcribing"
    /\ \E text \in TranscriptionTexts :
          /\ responses' = Append(responses, Returned(text))
          /\ IF text = NoneStr
             THEN /\ errors' = Append(errors, TranscriptionErrorMsg(StripOnNone))
                  /\ transcript_text' = << >>
                  /\ UNCHANGED tab1
             ELSE /\ transcript_text' = Strip(text)
                  /\ IF Strip(text) # << >>
                     THEN /\ tab1' = tab1 \o TranscriptDisplay(Strip(text), uploaded_file.name)
                          /\ UNCHANGED errors
                     ELSE /\ errors' = Append(errors, NoTranscriptMsg)
                          /\ UNCHANGED tab1
    /\ pc' = "guard"
    /\ UNCHANGED << gemini_api_key, uploaded_file, gemini_client, mime_type,
                    generated_content, sections, tab2, tab3, tab4, notices,
                    downloads, requests >>

\* faulty variant: the handler goes back to issue the request again
TranscribeRaiseRetries ==
    /\ pc = "transcribing"
    /\ \E e \in Causes :
          /\ responses' = Append(responses, Raised(e))
          /\ errors' = Append(errors, TranscriptionErrorMsg(e))
    /\ transcript_text' = << >>
    /\ pc' = "transcribe"
    /\ UNCHANGED << gemini_api_key, uploaded_file, gemini_client, mime_type,
                    generated_content, sections, tab1, tab2, tab3, tab4,
                    notices, downloads, requests >>

\* app.py 122 and 151-153: the request raises
TranscribeRaise ==
    /\ pc = "transcribing"
    /\ \E e \in Causes :
          /\ responses' = Append(responses, Raised(e))
          /\ errors' = Append(errors, TranscriptionErrorMsg(e))
    /\ transcript_text' = << >>
    /\ pc' = "guard"
    /\ UNCHANGED << gemini_api_key, uploaded_file, gemini_client, mime_type,
                    generated_content, sections, tab1, tab2, tab3, tab4,
                    notices, downloads, requests >>

\* faulty variant: if transcript_text is not None
GuardOnNotNone ==
    /\ pc = "guard"
    /\ pc' = IF transcript_text # NoneStr THEN "generate" ELSE "no_transcript"
    /\ UNCHANGED << gemini_api_key, uploaded_file, gemini_client, mime_type,
                    transcript_text, generated_content, sections, tab1, tab2,
                    tab3, tab4, errors, notices, downloads, requests, responses >>

\* app.py 156: if transcript_text
Guard ==
    /\ pc = "guard"
    /\ pc' = IF transcript_text # << >> THEN "generate" ELSE "no_transcript"
    /\ UNCHANGED << gemini_api_key, uploaded_file, gemini_client, mime_type,
                    transcript_text, generated_content, sections, tab1, tab2,
                    tab3, tab4, errors, notices, downloads, requests, responses >>

\* app.py 160-184: the study-material request is issued
GenerateCall ==
    /\ pc = "generate"
    /\ requests' = Append(requests, StudyRequest(transcript_text))
    /\ pc' = "generating"
    /\ UNCHANGED << gemini_api_key, uploaded_file, gemini_client, mime_type,
                    transcript_text, generated_content, sections, tab1, tab2,
                    tab3, tab4, errors, notices, downloads, responses >>

\* app.py 186: the request returns
GenerateReturn ==
    /\ pc = "generating"
    /\ \E text \in PipelineTexts :
          /\ responses' = Append(responses, Returned(text))
          /\ generated_content' = text
    /\ pc' = "parse"
    /\ UNCHANGED << gemini_api_key, uploaded_file, gemini_client, mime_type,
                    transcript_text, sections, tab1, tab2, tab3, tab4, errors,
                    notices, downloads, requests >>

\* faulty variant: the handler clears the transcript, as the transcription
\* handler does
GenerateRaiseClearsTranscript ==
    /\ pc = "generating"
    /\ \E e \in Causes :
          /\ responses' = Append(responses, Raised(e))
          /\ errors' = Append(errors, GenerationErrorMsg(e))
    /\ transcript_text' = << >>
    /\ pc' = "generation_failed"
    /\ UNCHANGED << gemini_api_key, uploaded_file, gemini_client, mime_type,
                    generated_content, sections, tab1, tab2, tab3, tab4,
                    notices, downloads, requests >>

\* app.py 181 and 262-263: the request raises
GenerateRaise ==
    /\ pc = "generating"
    /\ \E e \in Causes :
          /\ responses' = Append(responses, Raised(e))
          /\ errors' = Append(errors, GenerationErrorMsg(e))
    /\ pc' = "generation_failed"
    /\ UNCHANGED << gemini_api_key, uploaded_file, gemini_client, mime_type,
                    transcript_text, generated_content, sections, tab1, tab2,
                    tab3, tab4, notices, downloads, requests >>

\* app.py 190 (and 262-263 when .text is None)
ParseSections ==
    /\ pc = "parse"
    /\ IF generated_content = NoneStr
       THEN /\ errors' = Append(errors, GenerationErrorMsg(SplitOnNone))
            /\ pc' = "generation_failed"
            /\ UNCHANGED sections
       ELSE /\ sections' = Split(generated_content, Marker)
            /\ pc' = "tab2"
            /\ UNCHANGED errors
    /\ UNCHANGED << gemini_api_key, uploaded_file, gemini_client, mime_type,
                    transcript_text, generated_content, tab1, tab2, tab3, tab4,
                    notices, downloads, requests, responses >>

\* app.py 192-203
SummaryLoop ==
    /\ pc = "tab2"
    /\ tab2' = tab2 \o ForElse(sections, SUMMARY, 0, SummaryFallback(generated_content))
    /\ pc' = "tab3"
    /\ UNCHANGED << gemini_api_key, uploaded_file, gemini_client, mime_type,
                    transcript_text, generated_content, sections, tab1, tab3,
                    tab4, errors, notices, downloads, requests, responses >>

\* app.py 205-215
KeyPointsLoop ==
    /\ pc = "tab3"
    /\ tab3' = tab3 \o ForElse(sections, KEY_POINTS, 0, KeyPointsFallback)
    /\ pc' = "tab4"
    /\ UNCHANGED << gemini_api_key, uploaded_file, gemini_client, mime_type,
                    transcript_text, generated_content, sections, tab1, tab2,
                    tab4, errors, notices, downloads, requests, responses >>

\* app.py 217-227
QuizLoop ==
    /\ pc = "tab4"
    /\ tab4' = tab4 \o ForElse(sections, QUIZ, 0, QuizFallback)
    /\ pc' = "downloads"
    /\ UNCHANGED << gemini_api_key, uploaded_file, gemini_client, mime_type,
                    transcript_text, generated_content, sections, tab1, tab2,
                    tab3, errors, notices, downloads, requests, responses >>

\* app.py 229-260
Downloads ==
    /\ pc = "downloads"
    /\ downloads' =
         << [label |-> "Download Complete Notes", notes |-> generated_content],
            [label |-> "Download Study Guide", name |-> uploaded_file.name,
             transcript |-> transcript_text, notes |-> generated_content] >>
    /\ pc' = "complete"
    /\ UNCHANGED << gemini_api_key, uploaded_file, gemini_client, mime_type,
                    transcript_text, generated_content, sections, tab1, tab2,
                    tab3, tab4, errors, notices, requests, responses >>

Next ==
    \/ Gate
    \/ CreateClient
    \/ CreateClientRaise
    \/ ResolveMimeType
    \/ TranscribeCall
    \/ TranscribeReturn
    \/ TranscribeRaise
    \/ Guard
    \/ GenerateCall
    \/ GenerateReturn
    \/ GenerateRaise
    \/ ParseSections
    \/ SummaryLoop
    \/ KeyPointsLoop
    \/ QuizLoop
    \/ Downloads

Spec == Init /\ [][Next]_vars

(***************************************************************************)
(* MIME resolution on its own: the script at app.py:96 with any file name. *)
(***************************************************************************)
InitMime ==
    /\ pc = "mime"
    /\ gemini_api_key = "AIza"
    /\ uploaded_file \in [name : Names, size : {1024}]
    /\ gemini_client = "client"
    /\ mime_type = None
    /\ transcript_text = NoneStr
    /\ generated_content = NoneStr
    /\ sections = << >>
    /\ tab1 = << >> /\ tab2 = << >> /\ tab3 = << >> /\ tab4 = << >>
    /\ errors = << >> /\ notices = << >> /\ downloads = << >>
    /\ requests = << >> /\ responses = << >>

NextMime == ResolveMimeType

SpecMime == InitMime /\ [][NextMime]_vars

(***************************************************************************)
(* Section parsing on its own: the script at app.py:190 with any generated *)
(* text, after the run of the end-to-end scenario up to that line.         *)
(***************************************************************************)
InitExtract ==
    /\ pc = "parse"
    /\ gemini_api_key = "AIza"
    /\ uploaded_file = [name |-> <<"l", "e", "c", "t", "u", "r", "e", ".", "w", "a", "v">>, size |-> 1024]
    /\ gemini_client = "client"
    /\ mime_type = "audio/wav"
    /\ transcript_text = <<"H", "e", "l", "l", "o", " ", "w", "o", "r", "l", "d", ".">>
    /\ generated_content \in Texts
    /\ sections = << >>
    /\ tab1 = TranscriptDisplay(<<"H", "e", "l", "l", "o", " ", "w", "o", "r", "l", "d", ".">>, <<"l", "e", "c", "t", "u", "r", "e", ".", "w", "a", "v">>)
    /\ tab2 = << >> /\ tab3 = << >> /\ tab4 = << >>
    /\ errors = << >> /\ notices = << >> /\ downloads = << >>
    /\ requests =
         << TranscriptionRequest("audio/wav", [name |-> <<"l", "e", "c", "t", "u", "r", "e", ".", "w", "a", "v">>, size |-> 1024]),
            StudyRequest(<<"H", "e", "l", "l", "o", " ", "w", "o", "r", "l", "d", ".">>) >>
    /\ responses = << Returned(<<"H", "e", "l", "l", "o", " ", "w", "o", "r", "l", "d", ".">>), Returned(generated_content) >>

NextExtract ==
    \/ ParseSections
    \/ SummaryLoop
    \/ KeyPointsLoop
    \/ QuizLoop

SpecExtract == InitExtract /\ [][NextExtract]_vars

(***************************************************************************)
(* Vocabulary of the properties.                                           *)
(***************************************************************************)
\* the states of section 4.6, read off the position of the script
PipelineState ==
    CASE pc \in {"gate", "client", "idle"} -> "Idle"
      [] pc = "client_failed" -> "CredentialFailed"
      [] pc \in {"mime", "transcribe", "transcribing", "guard"} -> "Transcribing"
      [] pc = "no_transcript" -> "TranscriptionFailed"
      [] pc = "generate" -> "Transcribed"
      [] pc \in {"generating", "parse", "tab2", "tab3", "tab4", "downloads"} ->
           "GeneratingNotes"
      [] pc = "generation_failed" -> "GenerationFailed"
      [] pc = "complete" -> "Complete"

Done == pc \in {"idle", "client_failed", "no_transcript", "generation_failed", "complete"}

CountIn(reqs, kind) == Cardinality({i \in DOMAIN reqs : reqs[i].kind = kind})

IsBlank(text) == \A i \in DOMAIN text : text[i] \in Whitespace

\* t is raw without its leading and trailing whitespace
IsTrimOf(t, raw) ==
    /\ t = << >> \/ (t[1] \notin Whitespace /\ t[Len(t)] \notin Whitespace)
    /\ \E a \in 0..Len(raw) :
          /\ a + Len(t) <= Len(raw)
          /\ \A i \in 1..a : raw[i] \in Whitespace
          /\ \A i \in 1..Len(t) : raw[a + i] = t[i]
          /\ \A i \in (a + Len(t) + 1)..Len(raw) : raw[i] \in Whitespace

\* the transcription request has come back
TranscriptionAnswered == Len(responses) >= 1

TranscriptionRaised == TranscriptionAnswered /\ responses[1].outcome = "raised"

TranscriptionBlank ==
    /\ TranscriptionAnswered
    /\ responses[1].outcome = "returned"
    /\ responses[1].text # NoneStr
    /\ IsBlank(responses[1].text)

TranscriptionUsable ==
    /\ TranscriptionAnswered
    /\ responses[1].outcome = "returned"
    /\ responses[1].text # NoneStr
    /\ ~IsBlank(responses[1].text)

GenerationRaised == Len(responses) >= 2 /\ responses[2].outcome = "raised"

\* the loop of a tab has run
Shown(tab) ==
    CASE tab = "tab2" -> pc \in {"tab3", "tab4", "downloads", "complete"}
      [] tab = "tab3" -> pc \in {"tab4", "downloads", "complete"}
      [] tab = "tab4" -> pc \in {"downloads", "complete"}

\* fragments whose upper-cased text contains the label
Matching(label) == {i \in DOMAIN sections : Contains(Upper(sections[i]), label)}

HasLabel(text) ==
    \/ Contains(Upper(text), SUMMARY)
    \/ Contains(Upper(text), KEY_POINTS)
    \/ Contains(Upper(text), QUIZ)

EndsWithStar(text) == text # << >> /\ text[Len(text)] = "*"

\* text[from..to] holds no marker and no label
PlainPart(text, from, to, labelsAllowed) ==
    LET part == SubSeq(text, from, to)
    IN  /\ ~Contains(part, Marker)
        /\ labelsAllowed \/ ~HasLabel(part)

SummaryHeader == Marker \o SUMMARY \o Marker

KeyPointsHeader == Marker \o KEY_POINTS \o Marker

QuizHeader == Marker \o QUIZ \o Marker

\* the ways to read text as P + SummaryHeader + S + KeyPointsHeader + K + QuizHeader + Q
\* with P, S, K, Q free of markers and P, S, K free of labels
Readings(text) ==
    { r \in Occurrences(text, SummaryHeader) \X Occurrences(text, KeyPointsHeader)
              \X Occurrences(text, QuizHeader) :
        /\ r[1] + Len(SummaryHeader) <= r[2]
        /\ r[2] + Len(KeyPointsHeader) <= r[3]
        /\ PlainPart(text, 1, r[1] - 1, FALSE)
        /\ PlainPart(text, r[1] + Len(SummaryHeader), r[2] - 1, FALSE)
        /\ PlainPart(text, r[2] + Len(KeyPointsHeader), r[3] - 1, FALSE)
        /\ PlainPart(text, r[3] + Len(QuizHeader), Len(text), TRUE) }

SummaryOf(text, r) == SubSeq(text, r[1] + Len(SummaryHeader), r[2] - 1)

KeyPointsOf(text, r) == SubSeq(text, r[2] + Len(KeyPointsHeader), r[3] - 1)

QuizOf(text, r) == SubSeq(text, r[3] + Len(QuizHeader), Len(text))

\* the three tabs show exactly the trimmed S, K and Q of reading r
YieldsReading(r) ==
    /\ Len(tab2) = 1 /\ IsTrimOf(tab2[1].value, SummaryOf(generated_content, r))
    /\ Len(tab3) = 1 /\ IsTrimOf(tab3[1].value, KeyPointsOf(generated_content, r))
    /\ Len(tab4) = 1 /\ IsTrimOf(tab4[1].value, QuizOf(generated_content, r))

\* v is text when text has at most FallbackLen characters, and otherwise its
\* first FallbackLen characters followed by three dots
IsSummaryFallback(v, text) ==
    IF Len(text) <= FallbackLen
    THEN v = text
    ELSE /\ Len(v) = FallbackLen + 3
         /\ \A i \in 1..FallbackLen : v[i] = text[i]
         /\ \A i \in 1..3 : v[FallbackLen + i] = "."

AllCauses == Causes \cup {StripOnNone, SplitOnNone}

(***************************************************************************)
(* Properties.                                                             *)
(***************************************************************************)
\* C1: a run whose transcription call raises, or returns text that is empty
\* after stripping, issues no study-material request, enters no later stage,
\* and goes on from the guard on the transcript to end in TranscriptionFailed.
C1_FailedTranscriptionStopsRun ==
    TranscriptionRaised \/ TranscriptionBlank
      => /\ CountIn(requests, "study") = 0
         /\ pc \in {"guard", "no_transcript"}
         /\ pc = "guard" => ENABLED Guard
         /\ Done => PipelineState = "TranscriptionFailed"

C1_Witness ==
    /\ pc = "no_transcript"
    /\ TranscriptionBlank
    /\ responses[1].text # << >>
    /\ CountIn(requests, "study") = 0

\* C2: when transcription gave a non-empty transcript and the study-material
\* call raises, the run is in GenerationFailed with exactly the generation
\* error reported, and the transcript is still held and shown as obtained.
C2_TranscriptSurvivesGenerationFailure ==
    TranscriptionUsable /\ GenerationRaised
      => /\ PipelineState = "GenerationFailed"
         /\ errors = << GenerationErrorMsg(responses[2].cause) >>
         /\ transcript_text # << >>
         /\ IsTrimOf(transcript_text, responses[1].text)
         /\ tab1 = TranscriptDisplay(transcript_text, uploaded_file.name)

C2_Witness ==
    /\ pc = "generation_failed"
    /\ GenerationRaised
    /\ transcript_text = <<"H", "e", "l", "l", "o", " ", "w", "o", "r", "l", "d", ".">>
    /\ tab1 # << >>

C4_Original ==
    pc = "downloads"
      => \A r \in Readings(generated_content) : YieldsReading(r)

\* C4, amended: the same, for the readings in which neither S nor K ends
\* with an asterisk.
C4_WellFormedYieldsSections ==
    pc = "downloads"
      => \A r \in Readings(generated_content) :
            ~EndsWithStar(SummaryOf(generated_content, r))
            /\ ~EndsWithStar(KeyPointsOf(generated_content, r))
              => YieldsReading(r)

C4_Witness ==
    /\ pc = "downloads"
    /\ generated_content
         = WellFormed(<<"H", "e", "r", "e", " ", "y", "o", "u", " ", "g", "o", ":", "\n">>, <<"\n", "f", "o", "o", "\n">>, <<"\n", "-", " ", "p", "o", "i", "n", "t", " ", "o", "n", "e", "\n">>, <<"\n", "b", "a", "z">>)
    /\ tab2[1].value = <<"f", "o", "o">>
    /\ tab3[1].value = <<"-", " ", "p", "o", "i", "n", "t", " ", "o", "n", "e">>
    /\ tab4[1].value = <<"b", "a", "z">>

\* C5: for each label, when no fragment contains it or only the last
\* fragment does, the tab shows the fallback: the whole text or its first
\* 500 characters and an ellipsis for the summary, the placeholder for key
\* points and quiz.
C5_FallbackWhenNoContent ==
    /\ Shown("tab2") /\ Matching(SUMMARY) \subseteq {Len(sections)}
         => /\ Len(tab2) = 1
            /\ IsSummaryFallback(tab2[1].value, generated_content)
    /\ Shown("tab3") /\ Matching(KEY_POINTS) \subseteq {Len(sections)}
         => tab3 = << [at |-> "else", value |-> KeyPointsFallback] >>
    /\ Shown("tab4") /\ Matching(QUIZ) \subseteq {Len(sections)}
         => tab4 = << [at |-> "else", value |-> QuizFallback] >>

C5_Witness ==
    /\ pc = "downloads"
    /\ Len(generated_content) > FallbackLen
    /\ Matching(SUMMARY) = {}
    /\ Matching(QUIZ) = {Len(sections)}
    /\ Len(tab2[1].value) = FallbackLen + 3
    /\ tab4[1].at = "else"

\* C6: parsing raises nothing; each tab's loop, run on the fragments of any
\* text, makes exactly one write; when a tab's loop has run the tab holds
\* exactly one value, written either by the loop
\* body or by its else branch, and before that it holds none.
C6_EveryFieldExactlyOneValue ==
    /\ errors = << >>
    /\ pc \in {"parse", "tab2", "tab3", "tab4", "downloads"}
    /\ pc # "parse" => Len(sections) >= 1
    /\ pc = "tab2"
         => Len(ForElse(sections, SUMMARY, 0, SummaryFallback(generated_content))) = 1
    /\ pc = "tab3" => Len(ForElse(sections, KEY_POINTS, 0, KeyPointsFallback)) = 1
    /\ pc = "tab4" => Len(ForElse(sections, QUIZ, 0, QuizFallback)) = 1
    /\ \A t \in {<< "tab2", tab2 >>, << "tab3", tab3 >>, << "tab4", tab4 >>} :
          IF Shown(t[1])
          THEN Len(t[2]) = 1 /\ t[2][1].at \in {"for", "else"}
          ELSE t[2] = << >>

C6_Witness ==
    /\ pc = "downloads"
    /\ Cardinality(Matching(QUIZ)) >= 2
    /\ tab2[1].at = "else"
    /\ tab4[1].at = "for"

\* C7: at most one transcription request and one study-material request
\* are ever issued, and once a request has raised no request is issued.
C7_NoRetry ==
    [][ /\ CountIn(requests', "transcription") <= 1
        /\ CountIn(requests', "study") <= 1
        /\ (\E i \in DOMAIN responses : responses[i].outcome = "raised")
             => requests' = requests ]_vars

C7_Witness ==
    /\ pc = "no_transcript"
    /\ TranscriptionRaised
    /\ CountIn(requests, "transcription") = 1

\* C8 as stated: the run leaves Idle or issues a request only with a file of
\* at least one byte, a non-empty key and a constructed client; a failed
\* construction is reported alone and no stage runs.
C8_Original ==
    /\ PipelineState \notin {"Idle", "CredentialFailed"} \/ requests # << >>
         => /\ uploaded_file # NoFile
            /\ uploaded_file.size > 0
            /\ gemini_api_key # ""
            /\ gemini_client # None
    /\ pc = "client_failed"
         => /\ \E e \in Causes : errors = << ClientErrorMsg(e) >>
            /\ requests = << >> /\ responses = << >>
            /\ mime_type = None /\ transcript_text = NoneStr
            /\ tab1 = << >> /\ tab2 = << >> /\ tab3 = << >> /\ tab4 = << >>

\* C8, amended: the same with a file that is present, of whatever size.
C8_RunStartsOnlyWithFileKeyAndClient ==
    /\ PipelineState \notin {"Idle", "CredentialFailed"} \/ requests # << >>
         => /\ uploaded_file # NoFile
            /\ gemini_api_key # ""
            /\ gemini_client # None
    /\ pc = "client_failed"
         => /\ \E e \in Causes : errors = << ClientErrorMsg(e) >>
            /\ requests = << >> /\ responses = << >>
            /\ mime_type = None /\ transcript_text = NoneStr
            /\ tab1 = << >> /\ tab2 = << >> /\ tab3 = << >> /\ tab4 = << >>

C8_Witness ==
    /\ requests # << >>
    /\ uploaded_file.size = 0
    /\ gemini_client # None

\* C9: a run that ends in a failure has made exactly one error report, the
\* one of what failed, with the cause in it where there is one; an empty
\* transcript gets its own report; reports of different kinds never coincide.
C9_ExactlyOneMatchingReport ==
    /\ pc = "client_failed"
         => \E e \in Causes : errors = << ClientErrorMsg(e) >>
    /\ pc = "no_transcript"
         => errors =
              << IF TranscriptionRaised
                 THEN TranscriptionErrorMsg(responses[1].cause)
                 ELSE IF TranscriptionBlank
                      THEN NoTranscriptMsg
                      ELSE TranscriptionErrorMsg(StripOnNone) >>
    /\ pc = "generation_failed"
         => errors =
              << IF GenerationRaised
                 THEN GenerationErrorMsg(responses[2].cause)
                 ELSE GenerationErrorMsg(SplitOnNone) >>
    /\ \A e1, e2 \in AllCauses :
          Cardinality({ ClientErrorMsg(e1), TranscriptionErrorMsg(e2),
                        NoTranscriptMsg, GenerationErrorMsg(e1) }) = 4

C9_Witness ==
    /\ pc = "no_transcript"
    /\ TranscriptionBlank
    /\ errors = << NoTranscriptMsg >>

\* C10: for each label, when the first fragment containing it is not the
\* last fragment, the tab shows the trimmed fragment right after that first
\* one, whatever fragments contain the label later.
C10_FirstContainingFragmentDecides ==
    \A t \in {<< "tab2", tab2, SUMMARY >>, << "tab3", tab3, KEY_POINTS >>,
              << "tab4", tab4, QUIZ >>} :
       Shown(t[1]) /\ Matching(t[3]) # {} /\ SetMin(Matching(t[3])) < Len(sections)
         => /\ Len(t[2]) = 1
            /\ t[2][1].at = "for"
            /\ IsTrimOf(t[2][1].value, sections[SetMin(Matching(t[3])) + 1])

\* the quiz label occurs in a fragment before the real **QUIZ** header, and
\* the quiz tab shows what follows that fragment, not what follows the header
C10_Witness ==
    /\ pc = "downloads"
    /\ \E h \in Matching(QUIZ) :
          /\ sections[h] = QUIZ
          /\ h < Len(sections)
          /\ SetMin(Matching(QUIZ)) < h
          /\ tab4[1].value = Strip(sections[SetMin(Matching(QUIZ)) + 1])
          /\ tab4[1].value # Strip(sections[h + 1])

====
